---- MODULE Spec2Model ----
(***************************************************************************)
(* A model of build.js, the static site builder of easy-www: locale        *)
(* catalogs are loaded and merged onto the default locale, the output      *)
(* directory is reset, static files are copied, the locale manifests are   *)
(* written and every template is rendered once per locale.                 *)
(*                                                                         *)
(* JavaScript strings are sequences of chunks (<<"x", "\n">> is "x\n"),    *)
(* object keys included.  A JavaScript value is a tagged record: Str(s)    *)
(* for a string, Obj(f) for an object (f a function from keys to values),  *)
(* Arr(s) for an array, Undefined.                                         *)
(***************************************************************************)
EXTENDS Integers, Sequences, FiniteSets, TLC

VARIABLES
    files,            \* the catalog files of ./locales: locale -> JSON value, Absent or Unparseable
    globbed,          \* what glob.sync finds for build.js:233-234, in glob's order
    failAt,           \* where the file system fails in this run
    oldOut,           \* the output tree found at start
    pc,               \* the statement of build() that runs next
    defaultLocale,    \* build.js:102
    loadIdx,          \* position of locales.forEach, build.js:103
    resources,        \* build.js:101
    log,              \* everything log() has written, in order
    lng,              \* the language i18next translates to
    currentResource,  \* build.js:16
    localesList,      \* build.js:216
    out,              \* the output tree ./dist: path -> content
    ti,               \* position of the template loop, build.js:237
    li,               \* position of the locale loop, build.js:242
    exitCode,         \* the exit code of the process, NoExit while it runs
    steps,            \* history: the steps that have started, in order
    writes,           \* history: every write into ./dist since its reset
    calls             \* history: every call of a rendering helper

vars == <<files, globbed, failAt, oldOut, pc, defaultLocale, loadIdx, resources,
          log, lng, currentResource, localesList, out, ti, li, exitCode, steps,
          writes, calls>>

-----------------------------------------------------------------------------
(* JavaScript values *)

Str(s) == [t |-> "string", v |-> s]
Obj(f) == [t |-> "object", v |-> f]
Arr(s) == [t |-> "array", v |-> s]
Undefined == [t |-> "undefined", v |-> <<>>]
Absent == [t |-> "absent", v |-> <<>>]
Unparseable == [t |-> "unparseable", v |-> <<>>]

\* typeof x: an array is an object too
typeof(x) == IF x.t = "array" THEN "object" ELSE x.t

NoKeys == [k \in {} |-> Undefined]

\* obj[key]; a string has no property of the names used here
Get(obj, key) ==
    IF obj.t = "object" /\ key \in DOMAIN obj.v THEN obj.v[key] ELSE Undefined

\* obj[key] = val
Put(obj, key, val) == Obj((key :> val) @@ obj.v)

\* key in obj, for an object
In(key, obj) == key \in DOMAIN obj.v

\* for (const key in from): the own keys in creation order
KeyOrder == << <<"a">>, <<"b">>, <<"locale">>, <<"code">>, <<"name">>, <<"greeting">>,
               <<"changelog">>, <<"releases">>, <<"noChangelogMessage">>, <<"data">> >>

RECURSIVE KeysIn(_, _)
KeysIn(order, obj) ==
    IF order = <<>> THEN <<>>
    ELSE IF Head(order) \in DOMAIN obj.v
         THEN <<Head(order)>> \o KeysIn(Tail(order), obj)
         ELSE KeysIn(Tail(order), obj)

ForIn(obj) == KeysIn(KeyOrder, obj)

-----------------------------------------------------------------------------
(* Configuration, build.js:26-35 *)

defaultLanguage == <<"en">>
safeTags == {<<"b">>, <<"i">>, <<"br">>, <<"code">>}
safeAttributes == {}

\* "./" + path.join(config.localesDir, `${locale}.json`)
LocalePath(locale) == <<"./", "locales", "/">> \o locale \o <<".json">>

-----------------------------------------------------------------------------
(* copyMissing, build.js:74-87.  The result is the target after the walk,  *)
(* the warnings logged and whether the walk ended in a TypeError: `key in  *)
(* to` throws when `to` is a string.  The nested target is changed in      *)
(* place, so what a failed walk had copied stays copied.                   *)

\* a diagnostic that names the last key only
WarningOfKeyAlone(keySoFar, key, toName) ==
    [type |-> "warning", key |-> <<key>>, toName |-> toName]

\* build.js:77: the dotted key is kept as the path of its keys
Warning(keySoFar, key, toName) ==
    [type |-> "warning", key |-> keySoFar \o <<key>>, toName |-> toName]

\* a walk that warns and copies nothing
BackfillNothing(to, key, from) == to

\* build.js:78
Backfill(to, key, from) == Put(to, key, from.v[key])

RECURSIVE copyMissingFrom(_, _, _, _, _, _)
copyMissingFrom(keys, from, to, toName, keySoFar, logged) ==
    IF keys = <<>> THEN [to |-> to, log |-> logged, thrown |-> FALSE]
    ELSE LET key == Head(keys) IN
         IF typeof(to) # "object"
         THEN [to |-> to, log |-> logged, thrown |-> TRUE]
         ELSE IF ~In(key, to)
         THEN copyMissingFrom(Tail(keys), from, Backfill(to, key, from), toName,
                              keySoFar, Append(logged, Warning(keySoFar, key, toName)))
         ELSE IF typeof(from.v[key]) = "object"
         THEN LET r == copyMissingFrom(ForIn(from.v[key]), from.v[key], to.v[key],
                                       toName, keySoFar \o <<key>>, logged)
              IN  IF r.thrown
                  THEN [to |-> Put(to, key, r.to), log |-> r.log, thrown |-> TRUE]
                  ELSE copyMissingFrom(Tail(keys), from, Put(to, key, r.to), toName,
                                       keySoFar, r.log)
         ELSE copyMissingFrom(Tail(keys), from, to, toName, keySoFar, logged)

copyMissing(from, to, toName) ==
    copyMissingFrom(ForIn(from), from, to, toName, <<>>, <<>>)

-----------------------------------------------------------------------------
(* trimEndNewline, build.js:67-72 *)

endsWith(str, chunk) == Len(str) > 0 /\ str[Len(str)] = chunk

trimEndNewline(str) ==
    IF endsWith(str, "\n") THEN SubSeq(str, 1, Len(str) - 1) ELSE str

-----------------------------------------------------------------------------
(* parse5, as build.js:152-153 calls it: parseFragment and serialize with  *)
(* the default tree adapter, whose nodes carry nodeName, tagName, attrs,   *)
(* childNodes and value.  An HTML string is a sequence of chunks: a start  *)
(* tag, an end tag, or character data.  Tag and attribute names come out   *)
(* of the parser in lower case.                                            *)

StartTags ==
    ("<b>" :> [name |-> "b", attrs |-> <<>>]) @@
    ("<B>" :> [name |-> "b", attrs |-> <<>>]) @@
    ("<b onclick=x>" :> [name |-> "b", attrs |-> << [name |-> "onclick", value |-> "x"] >>]) @@
    ("<span>" :> [name |-> "span", attrs |-> <<>>])

EndTags == ("</b>" :> "b") @@ ("</B>" :> "b") @@ ("</span>" :> "span")

\* what serialize writes for a start tag and an end tag
StartTagText ==
    ([name |-> "b", attrs |-> <<>>] :> "<b>") @@
    ([name |-> "b", attrs |-> << [name |-> "onclick", value |-> "x"] >>]
         :> "<b onclick=\"x\">") @@
    ([name |-> "span", attrs |-> <<>>] :> "<span>")

EndTagText == ("b" :> "</b>") @@ ("span" :> "</span>")

UpperCase == ("B" :> "b")

toLowerCase(str) ==
    [i \in 1..Len(str) |-> IF str[i] \in DOMAIN UpperCase THEN UpperCase[str[i]] ELSE str[i]]

Field(name, val) == (<<name>> :> val)

TextNode(chunks) ==
    Obj(Field("nodeName", Str(<<"#text">>)) @@ Field("value", Str(chunks)))

AttrNode(a) == Obj(Field("name", Str(<<a.name>>)) @@ Field("value", Str(<<a.value>>)))

ElementNode(tag, kids) ==
    Obj(Field("nodeName", Str(<<tag.name>>)) @@ Field("tagName", Str(<<tag.name>>)) @@
        Field("attrs", Arr([i \in 1..Len(tag.attrs) |-> AttrNode(tag.attrs[i])])) @@
        Field("childNodes", Arr(kids)))

FragmentNode(kids) ==
    Obj(Field("nodeName", Str(<<"#document-fragment">>)) @@ Field("childNodes", Arr(kids)))

IsTextNode(node) == Get(node, <<"nodeName">>).v = <<"#text">>

\* character data joins the text node that follows it
PrependText(chunk, nodes) ==
    IF nodes # <<>> /\ IsTextNode(Head(nodes))
    THEN <<TextNode(<<chunk>> \o Get(Head(nodes), <<"value">>).v)>> \o Tail(nodes)
    ELSE <<TextNode(<<chunk>>)>> \o nodes

\* the nodes up to the end tag of `open` (or the end of input), and what follows it
RECURSIVE ParseNodes(_, _)
ParseNodes(chunks, open) ==
    IF chunks = <<>> THEN [nodes |-> <<>>, rest |-> <<>>]
    ELSE LET c == Head(chunks) IN
         IF c \in DOMAIN EndTags
         THEN IF EndTags[c] = open
              THEN [nodes |-> <<>>, rest |-> Tail(chunks)]
              ELSE ParseNodes(Tail(chunks), open)
         ELSE IF c \in DOMAIN StartTags
         THEN LET inner == ParseNodes(Tail(chunks), StartTags[c].name)
                  after == ParseNodes(inner.rest, open)
              IN  [nodes |-> <<ElementNode(StartTags[c], inner.nodes)>> \o after.nodes,
                   rest |-> after.rest]
         ELSE LET after == ParseNodes(Tail(chunks), open)
              IN  [nodes |-> PrependText(c, after.nodes), rest |-> after.rest]

parseFragment(html) == FragmentNode(ParseNodes(html, "").nodes)

RECURSIVE SerializeNodes(_)
SerializeNodes(nodes) ==
    IF nodes = <<>> THEN <<>>
    ELSE LET node == Head(nodes)
             attrs == Get(node, <<"attrs">>).v
             tag == [name |-> Get(node, <<"tagName">>).v[1],
                     attrs |-> [i \in 1..Len(attrs) |->
                                   [name |-> Get(attrs[i], <<"name">>).v[1],
                                    value |-> Get(attrs[i], <<"value">>).v[1]]]]
         IN  (IF IsTextNode(node)
              THEN Get(node, <<"value">>).v
              ELSE <<StartTagText[tag]>> \o SerializeNodes(Get(node, <<"childNodes">>).v)
                       \o <<EndTagText[tag.name]>>)
             \o SerializeNodes(Tail(nodes))

\* serialize(node): the markup of the node's children
serialize(node) == SerializeNodes(Get(node, <<"childNodes">>).v)

-----------------------------------------------------------------------------
(* sanitize, build.js:131-149 *)

\* Boolean(x)
Truthy(x) ==
    CASE x.t = "undefined" -> FALSE
      [] x.t = "string" -> x.v # <<>>
      [] OTHER -> TRUE

\* Object.keys(attribs).reduce(...), build.js:138-143
SafeAttribs(attribs) ==
    LET keys == IF attribs.t = "object" THEN DOMAIN attribs.v ELSE {}
    IN  Obj([attr \in {k \in keys : toLowerCase(k) \in safeAttributes} |-> attribs.v[attr]])

RECURSIVE sanitize(_)
sanitize(node) ==
    LET type == Get(node, <<"type">>)
        isTag == type.t = "string" /\ type.v = <<"tag">>
    IN  IF isTag /\ toLowerCase(Get(node, <<"name">>).v) \notin safeTags
        THEN Str(<<>>)
        ELSE LET cleaned == IF isTag
                            THEN Put(node, <<"attribs">>,
                                     SafeAttribs(Get(node, <<"attribs">>)))
                            ELSE node
                 children == Get(cleaned, <<"children">>)
                 mapped == [i \in 1..Len(children.v) |-> sanitize(children.v[i])]
             IN  IF Truthy(children)
                 THEN Put(cleaned, <<"children">>, Arr(SelectSeq(mapped, Truthy)))
                 ELSE cleaned

-----------------------------------------------------------------------------
(* i18next, as build.js uses it: init at build.js:116-119 sets the         *)
(* language and the resources once; t(key) looks the dotted key up in the  *)
(* resources of that language and returns the key itself when it finds no  *)
(* string there.                                                           *)

\* the keys of a dotted key
RECURSIVE SplitKey(_)
SplitKey(key) ==
    IF key = <<>> THEN << <<>> >>
    ELSE LET rest == SplitKey(Tail(key))
         IN  IF Head(key) = "."
             THEN << <<>> >> \o rest
             ELSE << <<Head(key)>> \o Head(rest) >> \o Tail(rest)

RECURSIVE GetPath(_, _)
GetPath(obj, path) ==
    IF path = <<>> THEN obj ELSE GetPath(Get(obj, Head(path)), Tail(path))

\* the store holds the objects of `resources` themselves, not copies
getResourceBundle(store, locale) == Get(Obj(store), locale)

\* the language i18next translates to: the one init was given, build.js:117
i18nextLanguage == lng

\* a missing key comes back as the key itself, a key of an object as a message
t(store, key) ==
    LET found == GetPath(getResourceBundle(store, i18nextLanguage), SplitKey(key))
    IN  CASE found.t = "string" -> found
          [] found.t = "undefined" -> Str(key)
          [] OTHER -> Str(<<"key '">> \o key \o <<" (">> \o i18nextLanguage
                              \o <<")' returned an object instead of string.">>)

-----------------------------------------------------------------------------
(* The rendering helpers, build.js:127-167.  A call yields the string the  *)
(* helper returns, a record of the call for the history, and whether it    *)
(* threw.                                                                  *)

\* `${x}`
TemplateString(x) ==
    CASE x.t = "string" -> x.v
      [] x.t = "undefined" -> <<"undefined">>
      [] OTHER -> <<"[object Object]">>

\* showdown's makeHtml is not modelled: its result stands for the HTML of the Markdown
makeHtml(markdown) == <<"makeHtml(">> \o markdown \o <<")">>

Call(helper, key, resolved, input, doc, clean, result) ==
    [helper |-> helper, key |-> key, resolved |-> resolved, input |-> input,
     doc |-> doc, sanitized |-> clean, result |-> result]

\* build.js:127-156
safe(store, key) ==
    LET translatedString == t(store, key)
        doc == parseFragment(translatedString.v)
        clean == sanitize(doc)
        sanitized == serialize(clean)
    IN  [result |-> sanitized, thrown |-> FALSE,
         call |-> Call("safe", key, translatedString, translatedString.v, doc, clean,
                       sanitized)]

\* build.js:158-167, with `current` the value of currentResource
renderMarkdown(store, key, current) ==
    LET resolved == t(store, key)
        releases == Get(current, <<"releases">>)
        placeholder == resolved.t = "undefined" \/ resolved.v = <<>>
        markdown == IF placeholder
                    THEN <<"*">> \o TemplateString(Get(releases, <<"noChangelogMessage">>))
                             \o <<"*">>
                    ELSE trimEndNewline(resolved.v)
        html == makeHtml(markdown)
    IN  [result |-> html, thrown |-> placeholder /\ releases.t = "undefined",
         call |-> Call("renderMarkdown", key, resolved, markdown, Undefined, Undefined,
                       html)]

-----------------------------------------------------------------------------
(* The build, build.js:90-276.  A statement that throws is caught at       *)
(* build.js:271: the error is logged and the process exits with code 1.    *)

NoExit == -1
NoLanguage == <<>>

AllLocales == << <<"de">>, <<"en">> >>

\* build.js:95-99: the names of the catalog files, sorted
locales == SelectSeq(AllLocales, LAMBDA l : files[l].t # "absent")

Info(what) == [type |-> "info", key |-> <<>>, toName |-> what]
Error(what) == [type |-> "error", key |-> <<>>, toName |-> what]

\* build.js:271-275
CatchExitCode == 1
CatchPc == "exited"

\* a catch block that logs the error and lets the process end normally
CaughtWithoutExit(logged, what) ==
    /\ log' = logged \o <<Error(what)>>
    /\ pc' = CatchPc
    /\ exitCode' = 0

Caught(logged, what) ==
    /\ log' = logged \o <<Error(what)>>
    /\ pc' = CatchPc
    /\ exitCode' = CatchExitCode

\* the output directory removed before the components are registered
AfterStepResetEarly(step) ==
    CASE step = "start" -> "loadLocales"
      [] step = "loadLocales" -> "reset"
      [] step = "reset" -> "register"
      [] step = "register" -> "copy"
      [] step = "copy" -> "manifest"
      [] step = "manifest" -> "glob"
      [] step = "glob" -> "compile"
      [] step = "compile" -> "render"

\* the statements of build() in program order
AfterStep(step) ==
    CASE step = "start" -> "loadLocales"
      [] step = "loadLocales" -> "register"
      [] step = "register" -> "reset"
      [] step = "reset" -> "copy"
      [] step = "copy" -> "manifest"
      [] step = "manifest" -> "glob"
      [] step = "glob" -> "compile"
      [] step = "compile" -> "render"

NoFailure == [step |-> "none", n |-> 0]
NoFiles == [p \in {} |-> Undefined]

\* the n-th file system call of the step throws
Fails(step, n) == failAt.step = step /\ failAt.n = n

\* build.js:92-102: the catalog directory is listed and the default catalog loaded
Start ==
    /\ pc = "start"
    /\ steps' = Append(steps, "load")
    /\ IF files[defaultLanguage].t # "object"
       THEN /\ Caught(log \o <<Info(<<"Starting build...">>)>>, <<"Cannot find module">>)
            /\ UNCHANGED <<defaultLocale, loadIdx>>
       ELSE /\ defaultLocale' = files[defaultLanguage]
            /\ loadIdx' = 1
            /\ log' = log \o <<Info(<<"Starting build...">>)>>
            /\ pc' = AfterStep("start")
            /\ UNCHANGED exitCode
    /\ UNCHANGED <<files, globbed, failAt, oldOut, resources, lng, currentResource,
                   localesList, out, ti, li, writes, calls>>

\* build.js:103-114: one turn of locales.forEach
LoadLocale ==
    /\ pc = "loadLocales"
    /\ loadIdx <= Len(locales)
    /\ LET locale == locales[loadIdx]
           localePath == LocalePath(locale)
           json == files[locale]
           merged == IF locale # defaultLanguage
                     THEN copyMissing(defaultLocale, json, localePath)
                     ELSE [to |-> json, log |-> <<>>, thrown |-> FALSE]
       IN  IF json.t # "object"
           THEN /\ Caught(log, <<"Unexpected token in JSON">>)
                /\ UNCHANGED <<resources, loadIdx>>
           ELSE IF merged.thrown
           THEN /\ Caught(log \o merged.log, <<"Cannot use 'in' operator">>)
                /\ UNCHANGED <<resources, loadIdx>>
           ELSE /\ resources' = (locale :> merged.to) @@ resources
                /\ loadIdx' = loadIdx + 1
                /\ log' = log \o merged.log
                /\ UNCHANGED <<pc, exitCode>>
    /\ UNCHANGED <<files, globbed, failAt, oldOut, defaultLocale, lng,
                   currentResource, localesList, out, ti, li, steps, writes, calls>>

\* build.js:115-119: i18next is initialised with the default language
InitI18next ==
    /\ pc = "loadLocales"
    /\ loadIdx > Len(locales)
    /\ lng' = defaultLanguage
    /\ log' = log \o <<Info(<<"locales">>)>>
    /\ pc' = AfterStep("loadLocales")
    /\ UNCHANGED <<files, globbed, failAt, oldOut, defaultLocale, loadIdx, resources,
                   currentResource, localesList, out, ti, li, exitCode, steps, writes,
                   calls>>

-----------------------------------------------------------------------------
(* Files.  A path is a directory (a sequence of names), a base name and an *)
(* extension; a path of the output tree is relative to ./dist, a template's*)
(* path relative to ./src.                                                 *)

File(dir, base, ext) == [dir |-> dir, base |-> base, ext |-> ext]

Content(class, data) == [class |-> class, data |-> data]

\* fs.writeFileSync / fs.copyFileSync into the output tree
WriteFile(tree, path, content) == (path :> content) @@ tree

Written(path, content, step, t_i, l_i) ==
    [path |-> path, content |-> content, by |-> [step |-> step, ti |-> t_i, li |-> l_i]]

RECURSIVE WriteAll(_, _)
WriteAll(tree, ws) ==
    IF ws = <<>> THEN tree
    ELSE WriteAll(WriteFile(tree, Head(ws).path, Head(ws).content), Tail(ws))

\* the files of ./src that are no templates
StaticFiles == << File(<<>>, <<"style">>, "css") >>

\* build.js:31 and 199-205: with "html" and "hbs" only ever at the end of a path,
\* the two patterns match the paths with these extensions
Excluded(file) == file.ext \in {"html", "hbs"}

\* build.js:235
startsWith(str, chunk) == Len(str) > 0 /\ str[1] = chunk

templateFiles == SelectSeq(globbed, LAMBDA f : ~startsWith(f.rel.base, "_"))

\* build.js:197-205
nonHtmlFiles ==
    SelectSeq(StaticFiles \o [i \in 1..Len(globbed) |-> globbed[i].rel],
              LAMBDA f : ~Excluded(f))

\* an output path that keeps the extension of the template
OutputPathKeepsExtension(prefix, relativePath) ==
    File(prefix \o relativePath.dir, relativePath.base, relativePath.ext)

\* build.js:252-255 and 259-262: path.join(outputDir, prefix, relativePath), .hbs made .html
OutputPath(prefix, relativePath) ==
    File(prefix \o relativePath.dir, relativePath.base,
         IF relativePath.ext = "hbs" THEN "html" ELSE relativePath.ext)

\* build.js:258: the locales that get the copy without the locale prefix
WritesUnprefixed(locale) == locale = defaultLanguage

\* build.js:246-248
RECURSIVE JoinDir(_)
JoinDir(dir) ==
    IF dir = <<>> THEN <<>>
    ELSE IF Len(dir) = 1 THEN Head(dir)
    ELSE Head(dir) \o <<"/">> \o JoinDir(Tail(dir))

RelativeURL(relativePath) ==
    IF relativePath.dir = <<>> THEN <<>> ELSE JoinDir(relativePath.dir) \o <<"/">>

-----------------------------------------------------------------------------
(* A compiled template, called with a context: the source is a sequence of *)
(* items, each a piece of text, a {{key}} or a helper call.                *)

Item(helper, key) == [helper |-> helper, key |-> key]

EvaluateItem(item, context, store) ==
    CASE item.helper = "text" ->
            [result |-> item.key, thrown |-> FALSE, calls |-> <<>>]
      [] item.helper = "lookup" ->
            [result |-> LET val == GetPath(context, SplitKey(item.key))
                        IN  IF val.t = "string" THEN val.v ELSE <<>>,
             thrown |-> FALSE, calls |-> <<>>]
      [] item.helper = "safe" ->
            LET r == safe(store, item.key)
            IN  [result |-> r.result, thrown |-> r.thrown, calls |-> <<r.call>>]
      [] item.helper = "renderMarkdown" ->
            LET r == renderMarkdown(store, item.key, context)
            IN  [result |-> r.result, thrown |-> r.thrown, calls |-> <<r.call>>]
      [] OTHER ->
            [result |-> <<>>, thrown |-> TRUE, calls |-> <<>>]

RECURSIVE Evaluate(_, _, _)
Evaluate(source, context, store) ==
    IF source = <<>> THEN [html |-> <<>>, thrown |-> FALSE, calls |-> <<>>]
    ELSE LET one == EvaluateItem(Head(source), context, store)
             rest == Evaluate(Tail(source), context, store)
         IN  IF one.thrown
             THEN [html |-> <<>>, thrown |-> TRUE, calls |-> one.calls]
             ELSE [html |-> one.result \o rest.html, thrown |-> rest.thrown,
                   calls |-> one.calls \o rest.calls]

-----------------------------------------------------------------------------
(* The steps after the catalogs are loaded *)

\* build.js:121-190: the helpers and the components are registered
Register ==
    /\ pc = "register"
    /\ steps' = Append(steps, "register")
    /\ IF Fails("register", 1)
       THEN Caught(log, <<"ENOENT">>)
       ELSE /\ pc' = AfterStep("register")
            /\ UNCHANGED <<log, exitCode>>
    /\ UNCHANGED <<files, globbed, failAt, oldOut, defaultLocale, loadIdx, resources, lng,
                   currentResource, localesList, out, ti, li, writes, calls>>

\* build.js:192-194
Reset ==
    /\ pc = "reset"
    /\ steps' = Append(steps, "reset")
    /\ IF Fails("reset", 1)
       THEN /\ Caught(log, <<"EACCES">>)
            /\ UNCHANGED out
       ELSE /\ out' = NoFiles
            /\ pc' = AfterStep("reset")
            /\ UNCHANGED <<log, exitCode>>
    /\ UNCHANGED <<files, globbed, failAt, oldOut, defaultLocale, loadIdx, resources, lng,
                   currentResource, localesList, ti, li, writes, calls>>

\* build.js:196-213
StaticCopy ==
    /\ pc = "copy"
    /\ steps' = Append(steps, "copy")
    /\ LET copied == [i \in 1..Len(nonHtmlFiles) |->
                         Written(nonHtmlFiles[i], Content("static", nonHtmlFiles[i].base),
                                 "copy", 0, 0)]
       IN  IF Fails("copy", 1)
           THEN /\ Caught(log, <<"EACCES">>)
                /\ UNCHANGED <<out, writes>>
           ELSE /\ out' = WriteAll(out, copied)
                /\ writes' = writes \o copied
                /\ log' = log \o [i \in 1..Len(copied) |-> Info(<<"Copied">>)]
                /\ pc' = AfterStep("copy")
                /\ UNCHANGED exitCode
    /\ UNCHANGED <<files, globbed, failAt, oldOut, defaultLocale, loadIdx, resources, lng,
                   currentResource, localesList, ti, li, calls>>

\* build.js:216-220: localesList[resources.locale.code] = resources.locale, locale by locale
RECURSIVE ListLocales(_, _, _)
ListLocales(store, names, list) ==
    IF names = <<>> THEN list
    ELSE LET block == Get(getResourceBundle(store, Head(names)), <<"locale">>)
         IN  ListLocales(store, Tail(names),
                         Put(list, TemplateString(Get(block, <<"code">>)), block))

ManifestPath(locale) == File(<< <<"resources">>, <<"locales">> >>, locale, "json")

\* build.js:215-230
Manifest ==
    /\ pc = "manifest"
    /\ steps' = Append(steps, "manifest")
    /\ LET list == ListLocales(resources, locales, Obj(NoKeys))
           noBlock == \E i \in 1..Len(locales) :
                          Get(getResourceBundle(resources, locales[i]), <<"locale">>).t
                              = "undefined"
           withData == [l \in DOMAIN resources |->
                           Put(resources[l], <<"data">>, Obj(Field("locales", list)))]
           written == [i \in 1..Len(locales) |->
                          Written(ManifestPath(locales[i]),
                                  Content("manifest", withData[locales[i]]),
                                  "manifest", 0, 0)]
       IN  IF noBlock
           THEN /\ Caught(log, <<"Cannot read properties of undefined">>)
                /\ UNCHANGED <<localesList, resources, out, writes>>
           ELSE IF Fails("manifest", 1)
           THEN /\ Caught(log, <<"EACCES">>)
                /\ localesList' = list
                /\ UNCHANGED <<resources, out, writes>>
           ELSE /\ localesList' = list
                /\ resources' = withData
                /\ out' = WriteAll(out, written)
                /\ writes' = writes \o written
                /\ pc' = AfterStep("manifest")
                /\ UNCHANGED <<log, exitCode>>
    /\ UNCHANGED <<files, globbed, failAt, oldOut, defaultLocale, loadIdx, lng,
                   currentResource, ti, li, calls>>

\* build.js:232-235
FindTemplates ==
    /\ pc = "glob"
    /\ steps' = Append(steps, "render")
    /\ ti' = 0
    /\ pc' = AfterStep("glob")
    /\ UNCHANGED <<files, globbed, failAt, oldOut, defaultLocale, loadIdx, resources, log,
                   lng, currentResource, localesList, out, li, exitCode, writes, calls>>

\* build.js:237-240: the next template is read and compiled
CompileTemplate ==
    /\ pc = "compile"
    /\ ti < Len(templateFiles)
    /\ IF Fails("compile", ti + 1)
       THEN /\ Caught(log, <<"EACCES">>)
            /\ UNCHANGED <<ti, li>>
       ELSE /\ ti' = ti + 1
            /\ li' = 0
            /\ pc' = AfterStep("compile")
            /\ UNCHANGED <<log, exitCode>>
    /\ UNCHANGED <<files, globbed, failAt, oldOut, defaultLocale, loadIdx, resources, lng,
                   currentResource, localesList, out, steps, writes, calls>>

PagesWritten == Len(SelectSeq(writes, LAMBDA w : w.by.step = "render"))

\* build.js:242-267: one turn of the locale loop
RenderLocale ==
    /\ pc = "render"
    /\ li < Len(locales)
    /\ LET templateFile == templateFiles[ti]
           locale == locales[li + 1]
           bundle == getResourceBundle(resources, locale)
           relativePath == templateFile.rel
           context == Put(bundle, <<"data">>,
                          Put(Get(bundle, <<"data">>), <<"relativeURL">>,
                              Str(RelativeURL(relativePath))))
           store == (locale :> context) @@ resources
       IN  \E rendered \in {Evaluate(templateFile.source, context, store)} :
           \E page \in {Content("page", rendered.html)} :
           \E first \in {Written(OutputPath(<<locale>>, relativePath), page, "render", ti,
                                 li + 1)} :
           \E second \in {Written(OutputPath(<<>>, relativePath), page, "render", ti,
                                  li + 1)} :
           /\ resources' = store
           /\ currentResource' = context
           /\ calls' = calls \o [i \in 1..Len(rendered.calls) |->
                                    [locale |-> locale, call |-> rendered.calls[i]]]
           /\ IF rendered.thrown
              THEN /\ Caught(log, <<"Parse error">>)
                   /\ UNCHANGED <<out, writes, li>>
              ELSE IF Fails("write", PagesWritten + 1)
              THEN /\ Caught(log, <<"EACCES">>)
                   /\ UNCHANGED <<out, writes, li>>
              ELSE IF WritesUnprefixed(locale) /\ Fails("write", PagesWritten + 2)
              THEN /\ Caught(log, <<"EACCES">>)
                   /\ out' = WriteFile(out, first.path, first.content)
                   /\ writes' = Append(writes, first)
                   /\ UNCHANGED li
              ELSE /\ out' = WriteAll(out, IF WritesUnprefixed(locale)
                                           THEN <<first, second>> ELSE <<first>>)
                   /\ writes' = writes \o (IF WritesUnprefixed(locale)
                                           THEN <<first, second>> ELSE <<first>>)
                   /\ li' = li + 1
                   /\ log' = Append(log, Info(<<"Built">>))
                   /\ pc' = IF li + 1 = Len(locales) THEN "compile" ELSE "render"
                   /\ UNCHANGED exitCode
    /\ UNCHANGED <<files, globbed, failAt, oldOut, defaultLocale, loadIdx, lng,
                   localesList, ti, steps>>

\* build.js:270, and the process ends
Complete ==
    /\ pc = "compile"
    /\ ti = Len(templateFiles)
    /\ log' = Append(log, Info(<<"Build complete!">>))
    /\ pc' = "exited"
    /\ exitCode' = 0
    /\ UNCHANGED <<files, globbed, failAt, oldOut, defaultLocale, loadIdx, resources, lng,
                   currentResource, localesList, out, ti, li, steps, writes, calls>>

Next ==
    \/ Start
    \/ LoadLocale
    \/ InitI18next
    \/ Register
    \/ Reset
    \/ StaticCopy
    \/ Manifest
    \/ FindTemplates
    \/ CompileTemplate
    \/ RenderLocale
    \/ Complete

-----------------------------------------------------------------------------
(* Catalogs for the merge: every tree over MergeKeys, at most three levels *)
(* deep and with at most MaxKeys keys in all.                              *)

MaxKeys == 3

MergeKeys == {<<"a">>, <<"b">>}
DefaultLeaves == {Str(<<"d">>)}
TargetLeaves == {Str(<<"t">>), Str(<<"d">>)}

ObjectsOver(vals) == {Obj(f) : f \in UNION {[S -> vals] : S \in SUBSET MergeKeys}}
Level1(leaves) == leaves \cup ObjectsOver(leaves)
Level2(leaves) == leaves \cup ObjectsOver(Level1(leaves))
Level3(leaves) == ObjectsOver(Level2(leaves))

RECURSIVE KeyCount(_)
KeyCount(x) ==
    IF x.t # "object" THEN 0
    ELSE LET keys == ForIn(x)
             Sum[i \in 0..Len(keys)] ==
                 IF i = 0 THEN 0 ELSE Sum[i - 1] + 1 + KeyCount(x.v[keys[i]])
         IN  Sum[Len(keys)]

CatalogsOver(leaves) == {c \in Level3(leaves) : KeyCount(c) <= MaxKeys}

InitRun ==
    /\ pc = "start"
    /\ defaultLocale = Undefined
    /\ loadIdx = 0
    /\ resources = NoKeys
    /\ log = <<>>
    /\ lng = NoLanguage
    /\ currentResource = Undefined
    /\ localesList = Undefined
    /\ out = oldOut
    /\ ti = 0
    /\ li = 0
    /\ exitCode = NoExit
    /\ steps = <<>>
    /\ writes = <<>>
    /\ calls = <<>>

InitMerge ==
    /\ \E from \in CatalogsOver(DefaultLeaves), to \in CatalogsOver(TargetLeaves) :
           files = (<<"en">> :> from) @@ (<<"de">> :> to)
    /\ globbed = <<>>
    /\ failAt = NoFailure
    /\ oldOut = NoFiles
    /\ InitRun

NextMerge == Start \/ LoadLocale \/ InitI18next

SpecMerge == InitMerge /\ [][NextMerge]_vars

-----------------------------------------------------------------------------
(* Sites for the whole build: catalogs with and without their own `locale` *)
(* block, templates in glob's order, one failure of the file system.       *)

MaxTemplates == 2
MaxFailedWrite == 3

LocaleBlock(code, name) ==
    Obj(Field("code", Str(<<code>>)) @@ Field("name", Str(<<name>>)))

Catalog(block, greeting) ==
    Obj(Field("locale", block) @@ Field("greeting", Str(<<greeting>>)))

EnglishFiles ==
    { Catalog(LocaleBlock("en", "English"), "Hello"),
      Obj(Field("greeting", Str(<<"Hello">>))),
      Absent }

GermanFiles ==
    { Catalog(LocaleBlock("de", "Deutsch"), "Hallo"),
      Catalog(LocaleBlock("de-DE", "Deutsch"), "Hallo"),
      Obj(Field("locale", Obj(Field("name", Str(<<"Deutsch">>))))),
      Obj(Field("locale", Str(<<"de">>))),
      Obj(NoKeys),
      Absent,
      Unparseable }

Template(dir, base, ext, source) == [rel |-> File(dir, base, ext), source |-> source]

Page(dir, base, ext, text) ==
    Template(dir, base, ext, <<Item("text", <<text>>), Item("lookup", <<"greeting">>)>>)

AllTemplates ==
    { Page(<<>>, <<"p">>, "hbs", "p.hbs:"),
      Page(<<>>, <<"p">>, "html", "p.html:"),
      Page(<< <<"en">> >>, <<"p">>, "hbs", "en/p.hbs:"),
      Page(<< <<"docs">> >>, <<"q">>, "html", "docs/q.html:"),
      Page(<<>>, <<"_", "nav">>, "hbs", "_nav.hbs:"),
      Template(<<>>, <<"bad">>, "hbs", <<Item("syntaxError", <<>>)>>) }

\* the sequences of at most n different members of S
RECURSIVE Arrangements(_, _)
Arrangements(S, n) ==
    IF n = 0 THEN {<<>>}
    ELSE {<<>>} \cup UNION {{<<x>> \o s : s \in Arrangements(S \ {x}, n - 1)} : x \in S}

FailurePoints ==
    {NoFailure}
        \cup {[step |-> s, n |-> 1] : s \in {"register", "reset", "copy", "manifest"}}
        \cup {[step |-> "compile", n |-> k] : k \in 1..MaxTemplates}
        \cup {[step |-> "write", n |-> k] : k \in 1..MaxFailedWrite}

OldTrees == {NoFiles, (File(<<>>, <<"old">>, "html") :> Content("old", <<"old">>))}

InitBuild ==
    /\ \E en \in EnglishFiles, de \in GermanFiles :
           files = (<<"en">> :> en) @@ (<<"de">> :> de)
    /\ globbed \in Arrangements(AllTemplates, MaxTemplates)
    /\ failAt \in FailurePoints
    /\ oldOut \in OldTrees
    /\ InitRun

SpecBuild == InitBuild /\ [][Next]_vars

-----------------------------------------------------------------------------
(* The merge of the catalog of de onto the default catalog *)

\* the key paths of a catalog, those of its mappings and those of its leaves
RECURSIVE Paths(_)
Paths(x) ==
    IF x.t # "object" THEN {}
    ELSE UNION {{<<k>>} \cup {<<k>> \o p : p \in Paths(x.v[k])} : k \in DOMAIN x.v}

Front(p) == SubSeq(p, 1, Len(p) - 1)

Target == <<"de">>
DefaultCatalog == files[defaultLanguage]
OriginalCatalog == files[Target]
MergedCatalog == resources[Target]

MergeReturned == Target \in DOMAIN resources
MergeThrew == \E i \in DOMAIN log : log[i].type = "error"

Warnings == SelectSeq(log, LAMBDA e : e.type = "warning")
WarningsOf(p) == {i \in DOMAIN Warnings : Warnings[i].key = p}

\* the paths of the default that the target lacks under a mapping it has
TopMissing ==
    {p \in Paths(DefaultCatalog) :
        p \notin Paths(OriginalCatalog) /\ GetPath(OriginalCatalog, Front(p)).t = "object"}

\* C1: the merge completes for every pair of catalogs, and the merged catalog has
\* every key path of the default, with the target's original value where the
\* target had the path and the default's value where it had not
C1_MergeCompletes ==
    /\ ~MergeThrew
    /\ MergeReturned =>
           \A p \in Paths(DefaultCatalog) :
               /\ p \in Paths(MergedCatalog)
               /\ (p \in Paths(OriginalCatalog)
                       /\ GetPath(OriginalCatalog, p).t = "string")
                      => GetPath(MergedCatalog, p) = GetPath(OriginalCatalog, p)
               /\ p \notin Paths(OriginalCatalog)
                      => GetPath(MergedCatalog, p) = GetPath(DefaultCatalog, p)

\* C2 as stated: after the merge every key path of the default that the target
\* lacked has exactly one warning, leaves under a missing mapping included, and
\* a path the target had has none
C2_OneWarningPerMissingPath ==
    MergeReturned =>
        \A p \in Paths(DefaultCatalog) :
            Cardinality(WarningsOf(p)) = IF p \in Paths(OriginalCatalog) THEN 0 ELSE 1

\* C2, amended: every warning names the catalog file of the target and a path
\* the target lacks under a mapping it has, no path is warned of twice, and
\* after the merge exactly these top-most missing paths have been warned of
C2_TopmostWarnings ==
    /\ \A i \in DOMAIN Warnings :
           Warnings[i].toName = LocalePath(Target) /\ Warnings[i].key \in TopMissing
    /\ \A i, j \in DOMAIN Warnings : Warnings[i].key = Warnings[j].key => i = j
    /\ MergeReturned => {Warnings[i].key : i \in DOMAIN Warnings} = TopMissing

\* a merge that backfilled a mapping with a leaf in it
C2_Witness ==
    /\ MergeReturned
    /\ Warnings # <<>>
    /\ \E p \in Paths(DefaultCatalog) \ Paths(OriginalCatalog) :
           Len(p) = 2 /\ p \notin TopMissing /\ WarningsOf(p) = {}

\* C8 as stated: the key paths of the merged catalog are those of the default
C8_KeysEqualDefault ==
    MergeReturned => Paths(MergedCatalog) = Paths(DefaultCatalog)

\* C8, amended: the key paths of the merged catalog are those of the default
\* together with those of the target's original catalog
C8_KeysOfBoth ==
    MergeReturned =>
        Paths(MergedCatalog) = Paths(DefaultCatalog) \cup Paths(OriginalCatalog)

\* a merge that backfilled a key and kept a key the default has not
C8_Witness ==
    /\ MergeReturned
    /\ Paths(DefaultCatalog) \ Paths(OriginalCatalog) # {}
    /\ Paths(OriginalCatalog) \ Paths(DefaultCatalog) # {}

-----------------------------------------------------------------------------
(* The whole build *)

Failed == \E i \in DOMAIN log : log[i].type = "error"
Exited == pc = "exited"
Succeeded == Exited /\ exitCode = 0

StepOrder == <<"load", "register", "reset", "copy", "manifest", "render">>
Started(step) == \E i \in DOMAIN steps : steps[i] = step

\* the output directory has been removed
ResetDone == pc = "copy" \/ Started("copy")

\* the manifests have been written
ManifestDone == pc \in {"glob", "compile", "render"} \/ Started("render")

\* C9: the steps start in the fixed order; a failure ends the run with a
\* non-zero exit code, after it no step runs and nothing is written, and what
\* was written stays; a run without failure runs every step and exits with 0
C9_FixedOrderAndAbort ==
    /\ Len(steps) <= Len(StepOrder)
    /\ steps = SubSeq(StepOrder, 1, Len(steps))
    /\ Failed => Exited /\ exitCode # 0 /\ exitCode # NoExit
    /\ Exited => ~ENABLED Next
    /\ ~Exited => exitCode = NoExit
    /\ (Exited /\ ~Failed) => exitCode = 0 /\ steps = StepOrder
    /\ out = WriteAll(IF ResetDone THEN NoFiles ELSE oldOut, writes)

\* a run that failed while rendering, after it had written into the output tree
C9_Witness ==
    /\ Exited
    /\ Failed
    /\ Started("render")
    /\ \E i \in DOMAIN writes : writes[i].by.step = "render"
    /\ \A i \in DOMAIN writes : writes[i].path \in DOMAIN out

\* C10: until every catalog is loaded and merged and the components are
\* registered, the output tree is the one found at start; once the reset has
\* run, a file of the old tree is there only if the build wrote it again
C10_OutputUntouchedBeforeReset ==
    /\ ~ResetDone => out = oldOut /\ writes = <<>>
    /\ ResetDone =>
           /\ SubSeq(steps, 1, 3) = <<"load", "register", "reset">>
           /\ lng = defaultLanguage
           /\ \A i \in DOMAIN locales : locales[i] \in DOMAIN resources
           /\ \A p \in DOMAIN oldOut :
                  p \in DOMAIN out => \E i \in DOMAIN writes : writes[i].path = p

\* a run that failed before the reset and left the old output tree in place
C10_Witness ==
    /\ Exited
    /\ Failed
    /\ ~Started("reset")
    /\ oldOut # NoFiles
    /\ out = oldOut

\* C7: once the manifests are written, the manifest of every locale holds an
\* index with an entry under the code of every locale, the entry being that
\* locale's own metadata
C7_IndexCoversEveryLocale ==
    ManifestDone =>
        \A i \in DOMAIN locales :
            /\ ManifestPath(locales[i]) \in DOMAIN out
            /\ \A j \in DOMAIN locales :
                   LET index == GetPath(out[ManifestPath(locales[i])].data,
                                        << <<"data">>, <<"locales">> >>)
                       entry == Get(index, locales[j])
                   IN  /\ entry.t = "object"
                       /\ Get(entry, <<"code">>) = Str(locales[j])
                       /\ entry = Get(files[locales[j]], <<"locale">>)

-----------------------------------------------------------------------------
(* The rendered pages *)

\* the path of a template with its extension made .html
Html(rel) == File(rel.dir, rel.base, "html")

UnderLocale(locale, path) == File(<<locale>> \o path.dir, path.base, path.ext)

\* what the turns of the two loops are to write: the page of template i for
\* locale j under the locale, and for the default locale without prefix too
Targets ==
    {[ti |-> i, li |-> j, path |-> UnderLocale(locales[j], Html(templateFiles[i].rel))] :
        i \in DOMAIN templateFiles, j \in DOMAIN locales}
    \cup
    {[ti |-> i, li |-> j, path |-> Html(templateFiles[i].rel)] :
        i \in DOMAIN templateFiles, j \in {k \in DOMAIN locales : locales[k] = defaultLanguage}}

NoCollision == \A a, b \in Targets : a.path = b.path => a = b

Later(a, b) == a.ti > b.ti \/ (a.ti = b.ti /\ a.li > b.li)

\* the page of template i rendered for locale j
Rendered(i, j) ==
    Content("page",
            Evaluate(templateFiles[i].source, resources[locales[j]], resources).html)

PageFiles == {p \in DOMAIN out : out[p].class = "page"}

RenderWrites == SelectSeq(writes, LAMBDA w : w.by.step = "render")

TurnsWriting(p) ==
    {<<RenderWrites[i].by.ti, RenderWrites[i].by.li>> :
        i \in {k \in DOMAIN RenderWrites : RenderWrites[k].path = p}}

\* C5 as stated: after a successful build every template has its page under
\* every locale, the unprefixed page equals the one under the default locale,
\* there are |T| * (|Ls| + 1) pages, and every page was written by one turn
C5_OnePagePerTemplateAndLocale ==
    Succeeded =>
        /\ \A i \in DOMAIN templateFiles :
               /\ \A j \in DOMAIN locales :
                      LET path == UnderLocale(locales[j], Html(templateFiles[i].rel))
                      IN  path \in DOMAIN out /\ out[path] = Rendered(i, j)
               /\ LET path == Html(templateFiles[i].rel)
                  IN  /\ path \in DOMAIN out
                      /\ UnderLocale(defaultLanguage, path) \in DOMAIN out
                      /\ out[path] = out[UnderLocale(defaultLanguage, path)]
        /\ Cardinality(PageFiles) = Len(templateFiles) * (Len(locales) + 1)
        /\ \A p \in PageFiles : Cardinality(TurnsWriting(p)) = 1

\* C5, amended: a successful build has made |T| * (|Ls| + 1) writes of pages,
\* the pages are the files at the paths the turns resolve to, and each holds
\* the page of the last turn that resolves to its path; when no two turns
\* resolve to the same path the claim holds as stated
C5_PagesOfLastWriters ==
    Succeeded =>
        /\ Len(RenderWrites) = Len(templateFiles) * (Len(locales) + 1)
        /\ PageFiles = {a.path : a \in Targets}
        /\ \A a \in Targets :
               (\A b \in Targets : b.path = a.path => ~Later(b, a))
                   => out[a.path] = Rendered(a.ti, a.li)
        /\ NoCollision => C5_OnePagePerTemplateAndLocale

\* a successful build of two templates for two locales that share no output path
C5_Witness ==
    /\ Succeeded
    /\ Len(templateFiles) = 2
    /\ Len(locales) = 2
    /\ NoCollision
    /\ Cardinality(PageFiles) = 6

-----------------------------------------------------------------------------
(* Sites for the helpers: one page that calls `safe` and `renderMarkdown`,  *)
(* catalogs that have, lack or leave empty the keys the page names.         *)

\* obj with key set to val, or left without it when val is Absent
WithKey(obj, key, val) == IF val.t = "absent" THEN obj ELSE Put(obj, key, val)

ValuesOf(text) == {Absent, Str(<<>>), Str(<<text>>), Str(<<text, "\n">>)}

Releases(message) == Obj(Field("noChangelogMessage", Str(<<message>>)))

HelperCatalog(code, greeting, changelog, releases) ==
    WithKey(WithKey(WithKey(Obj(Field("locale", LocaleBlock(code, code))),
                            <<"greeting">>, greeting),
                    <<"changelog">>, changelog),
            <<"releases">>, releases)

HelperPage ==
    Template(<<>>, <<"p">>, "hbs",
             <<Item("safe", <<"greeting">>), Item("renderMarkdown", <<"changelog">>)>>)

InitHelper ==
    /\ \E g1 \in {Absent, Str(<<"Hello">>)}, c1 \in ValuesOf("new"),
          g2 \in {Absent, Str(<<"Hallo">>)}, c2 \in ValuesOf("neu"),
          r2 \in {Absent, Releases("nichts")} :
           files = (<<"en">> :> HelperCatalog("en", g1, c1, Releases("none")))
                   @@ (<<"de">> :> HelperCatalog("de", g2, c2, r2))
    /\ globbed = <<HelperPage>>
    /\ failAt = NoFailure
    /\ oldOut = NoFiles
    /\ InitRun

SpecHelper == InitHelper /\ [][Next]_vars

\* the value of a dotted key in the merged catalog of a locale
OwnValue(locale, key) == GetPath(resources[locale], SplitKey(key))

\* C3: whenever a page rendered for a locale calls `safe` or `renderMarkdown`
\* with a key, the string the helper resolves is the value of the key in the
\* merged catalog of that locale
C3_ResolvesInRenderedCatalog ==
    \A i \in DOMAIN calls :
        OwnValue(calls[i].locale, calls[i].call.key).t = "string"
            => calls[i].call.resolved = OwnValue(calls[i].locale, calls[i].call.key)

WithoutTrailingNewline(str) ==
    IF Len(str) > 0 /\ str[Len(str)] = "\n" THEN SubSeq(str, 1, Len(str) - 1) ELSE str

\* C6: the Markdown `renderMarkdown` converts while a locale is rendered is
\* the placeholder *m*, m the locale's own releases.noChangelogMessage, when
\* the key is absent from the locale's catalog or empty there, and otherwise
\* the key's string without its one trailing newline
C6_PlaceholderOrTrimmed ==
    \A i \in DOMAIN calls :
        calls[i].call.helper = "renderMarkdown" =>
            LET own == OwnValue(calls[i].locale, calls[i].call.key)
                message == OwnValue(calls[i].locale,
                                    <<"releases", ".", "noChangelogMessage">>)
            IN  calls[i].call.input =
                    IF own.t = "undefined" \/ own.v = <<>>
                    THEN <<"*">> \o message.v \o <<"*">>
                    ELSE WithoutTrailingNewline(own.v)

-----------------------------------------------------------------------------
(* Sites for the sanitizer: the page calls `safe` on a string of the       *)
(* default catalog, every well-nested string of at most MaxHtml chunks.    *)

MaxHtml == 3

HtmlChunks == DOMAIN StartTags \cup DOMAIN EndTags \cup {"x"}

\* every start tag has its end tag, inside out
RECURSIVE WellNested(_, _)
WellNested(chunks, open) ==
    IF chunks = <<>> THEN open = <<>>
    ELSE LET c == Head(chunks) IN
         IF c \in DOMAIN StartTags
         THEN WellNested(Tail(chunks), <<StartTags[c].name>> \o open)
         ELSE IF c \in DOMAIN EndTags
         THEN open # <<>> /\ Head(open) = EndTags[c] /\ WellNested(Tail(chunks), Tail(open))
         ELSE WellNested(Tail(chunks), open)

HtmlStrings ==
    {str \in UNION {[1..n -> HtmlChunks] : n \in 0..MaxHtml} : WellNested(str, <<>>)}

InitSan ==
    /\ \E html \in HtmlStrings, de \in {Absent, Obj(NoKeys)} :
           files = (<<"en">> :> HelperCatalog("en", Str(html), Absent, Releases("none")))
                   @@ (<<"de">> :> de)
    /\ globbed = <<HelperPage>>
    /\ failAt = NoFailure
    /\ oldOut = NoFiles
    /\ InitRun

SpecSan == InitSan /\ [][Next]_vars

\* the nodes with the elements outside the tag allowlist dropped, their
\* descendants with them, and the attributes outside the attribute allowlist
\* dropped from the elements that stay
RECURSIVE AllowlistedNodes(_)
AllowlistedNodes(nodes) ==
    IF nodes = <<>> THEN <<>>
    ELSE LET node == Head(nodes)
             attrs == Get(node, <<"attrs">>).v
             kids == Get(node, <<"childNodes">>).v
         IN  (IF IsTextNode(node) THEN <<node>>
              ELSE IF toLowerCase(Get(node, <<"tagName">>).v) \notin safeTags THEN <<>>
              ELSE <<Put(Put(node, <<"attrs">>,
                             Arr(SelectSeq(attrs, LAMBDA a :
                                     toLowerCase(Get(a, <<"name">>).v) \in safeAttributes))),
                         <<"childNodes">>, Arr(AllowlistedNodes(kids)))>>)
             \o AllowlistedNodes(Tail(nodes))

\* C4: the tree `safe` serializes is the parsed tree without the elements
\* outside safeTags and their descendants and without the attributes outside
\* safeAttributes, everything else unchanged and in its order
C4_DisallowedRemoved ==
    \A i \in DOMAIN calls :
        calls[i].call.helper = "safe" =>
            /\ calls[i].call.sanitized =
                   FragmentNode(AllowlistedNodes(Get(calls[i].call.doc, <<"childNodes">>).v))
            /\ calls[i].call.result = serialize(calls[i].call.sanitized)

====
